---- MODULE Spec2Model ----
(***************************************************************************)
(* Document-processing pipeline of docflow-poc: the orchestrator task      *)
(* processDocumentWorkflow and its child tasks (register-document,         *)
(* download-and-prepare, classify-document, store-file, the three          *)
(* extractors and store-metadata), over the income_registry table, the     *)
(* object-storage bucket and the Drive inbox.                               *)
(*                                                                         *)
(* One workflow run for one source file (fileId "f1") is modelled, with    *)
(* the orchestrator's own retry.  Every child task attempt is one atomic   *)
(* step whose point of failure (a SQL statement, a Drive/storage/Claude    *)
(* call) is chosen nondeterministically.  The orchestrator's code between two       *)
(* triggerAndWait calls touches only its locals and runs as part of the    *)
(* step that returns the child's result.  Confidence values are hundredths.*)
(* Sequences of strings stand for error messages (<<>> is null).           *)
(***************************************************************************)
EXTENDS Integers, Sequences, FiniteSets, TLC

\* ------------------------------------------------------------------ bounds
MaxPeriod == 2

\* ------------------------------------------------------- program constants
CONFIDENCE_THRESHOLD == 80
DEFAULT_CONFIDENCE == 0
WorkflowMaxAttempts == 2
RegisterMaxAttempts == 3
DownloadMaxAttempts == 5
ClassifyMaxAttempts == 10
StoreMaxAttempts == 5
ExtractMaxAttempts == 10
MetadataMaxAttempts == 3

DEFAULT_DOCUMENT_TYPE == "unknown"

Periods == 1..MaxPeriod
FileId == "f1"

\* ---------------------------------------------------------------- domains
DocumentTypes == {"invoice", "bank_statement", "government_letter", "unknown"}
\* document_type is copied from the parsed JSON without validation, so the
\* classifier may return a label outside the four known types.
RawLabels == DocumentTypes \cup {"receipt"}
Confidences == {79, 80, 95}
MimeTypes == {"application/pdf", "image/png"}

DocumentStatus ==
  {"new", "downloading", "downloaded", "download_failed", "classifying",
   "classified", "classification_failed", "storing", "stored", "store_failed",
   "extracting", "extracted", "extraction_failed", "saving_metadata",
   "metadata_storage_failed", "processed", "rejected"}

REGISTER == "register-document"
DOWNLOAD == "download-and-prepare"
CLASSIFY == "classify-document"
STORE == "store-file"
EXTRACT_INVOICE == "extract-invoice-data"
EXTRACT_STATEMENT == "extract-statement-data"
EXTRACT_LETTER == "extract-letter-data"
METADATA == "store-metadata"

Extractors == {EXTRACT_INVOICE, EXTRACT_STATEMENT, EXTRACT_LETTER}
Tasks == {REGISTER, DOWNLOAD, CLASSIFY, STORE, METADATA} \cup Extractors

\* ------------------------------------------------------------ null values
NoError == <<>>
NoPath == [folder |-> "NULL", period |-> 0, docId |-> "NULL", ext |-> "NULL"]
NoClassification ==
  [documentType |-> "NULL", confidence |-> -1, possibleType |-> "NULL",
   claudeFileId |-> "NULL"]

BlankPayload ==
  [docId |-> "NULL", fileId |-> "NULL", mimeType |-> "NULL",
   storagePath |-> NoPath, documentType |-> "NULL",
   classification |-> NoClassification, claudeFileId |-> "NULL",
   extractedData |-> "NULL", extractionError |-> NoError]

BlankOutput ==
  [registryId |-> 0, docId |-> "NULL", storagePath |-> NoPath,
   classification |-> NoClassification, extractedData |-> "NULL",
   status |-> "NULL", jsonStoragePath |-> NoPath, deletedFromInbox |-> FALSE]

NoResult == [has |-> FALSE, ok |-> FALSE, output |-> BlankOutput, error |-> NoError]
OkResult(out) == [has |-> TRUE, ok |-> TRUE, output |-> out, error |-> NoError]
ErrResult(err) == [has |-> TRUE, ok |-> FALSE, output |-> BlankOutput, error |-> err]

NoWorkflowOutput ==
  [status |-> "NULL", documentType |-> "NULL", confidence |-> -1,
   registryId |-> 0, docId |-> "NULL", pdfStoragePath |-> NoPath,
   jsonStoragePath |-> NoPath, inboxCleaned |-> FALSE, error |-> NoError]

\* attempt and payload belong to the attempt in progress (0, blank when none is).
IdleChild ==
  [state |-> "none", attempt |-> 0, payload |-> BlankPayload,
   output |-> BlankOutput, error |-> NoError]

\* Local variables of one execution of the orchestrator's run function.
FreshLocals(att) ==
  [pc |-> "register", attempt |-> att, wait |-> "none",
   invoked |-> {}, docId |-> "NULL", registryId |-> 0,
   inboxPath |-> NoPath, classification |-> NoClassification,
   documentType |-> "NULL", confidence |-> -1, claudeFileId |-> "NULL",
   pdfStoragePath |-> NoPath, deletedFromInbox |-> FALSE,
   extractedData |-> "NULL", extractionError |-> NoError,
   out |-> NoWorkflowOutput, thrown |-> NoError]

IdleRun == [FreshLocals(0) EXCEPT !.pc = "idle"]

\* The cron job before its first poll: the folder is empty and no last-check
\* time is on file (new Date(0)).
IdlePoller ==
  [pc |-> "idle", clock |-> 1, folder |-> {}, lastCheckedTime |-> 0,
   newFiles |-> <<>>, triggered |-> {}]

\* ----------------------------------------------------------------- state
VARIABLES
  input,        \* WorkflowInput of the source file: fileId, mimeType
  now,          \* calendar period (year/month) last returned by new Date()
  registry,     \* table income_registry: sequence of rows
  typeTables,   \* tables invoices, statements, letters: sequences of doc_ids
  objects,      \* storage bucket: function from object key to content kind
  child,        \* per task id: the child run carrying the idempotency key
  cacheOrder,   \* task ids whose idempotency key is live, oldest first
  run,          \* the workflow run: position and locals of the orchestrator
  duplicate,    \* a second workflow run triggered for the same file
  faults,       \* whether the services the tasks call (Postgres, the storage
                \* bucket, Google Drive, Claude) can fail
  poller        \* the cron job: the watched Drive folder, the clock, the
                \* last-check time on file and the position of checkAndTrigger

vars ==
  <<input, now, registry, typeTables, objects, child, cacheOrder, run,
    duplicate, faults, poller>>

Range(s) == {s[i] : i \in DOMAIN s}
Remove(s, x) == SelectSeq(s, LAMBDA y : y # x)

\* ------------------------------------------------------------- the tables
\* income_registry.doc_id is UNIQUE NOT NULL.
HasRow(reg, docId) == \E i \in DOMAIN reg : reg[i].doc_id = docId

RowOf(reg, docId) == reg[CHOOSE i \in DOMAIN reg : reg[i].doc_id = docId]

NewRow(id, docId, mime) ==
  [id |-> id, doc_id |-> docId, mime_type |-> mime, status |-> "new",
   classification |-> "NULL", confidence |-> -1, possible_type |-> "NULL",
   storage_path_pdf |-> NoPath, storage_path_json |-> NoPath,
   error_message |-> NoError]

\* INSERT INTO income_registry ... RETURNING id, doc_id (a blind insert).
InsertRegistry(reg, docId, mime) == Append(reg, NewRow(Len(reg) + 1, docId, mime))

\* UPDATE income_registry SET status = s WHERE doc_id = d
SetStatus(reg, docId, s) ==
  [i \in DOMAIN reg |->
     IF reg[i].doc_id = docId THEN [reg[i] EXCEPT !.status = s] ELSE reg[i]]

\* UPDATE income_registry SET status = s, error_message = e WHERE doc_id = d
SetFailure(reg, docId, s, err) ==
  [i \in DOMAIN reg |->
     IF reg[i].doc_id = docId
     THEN [reg[i] EXCEPT !.status = s, !.error_message = err]
     ELSE reg[i]]

\* --------------------------------------------------------- object storage
InboxKey(docId) == [folder |-> "inbox", period |-> 0, docId |-> docId, ext |-> "pdf"]

\* PutObject overwrites whatever is stored under the key.
uploadFile(objs, key, content) ==
  [k \in (DOMAIN objs) \cup {key} |-> IF k = key THEN content ELSE objs[k]]

\* DeleteObject succeeds whether or not the key exists.
deleteFile(objs, key) == [k \in (DOMAIN objs) \ {key} |-> objs[k]]

Exists(objs, key) == key \in DOMAIN objs

NoObjects == [k \in {} |-> "NULL"]

\* ------------------------------------------------------------------- Init
Init ==
  /\ input \in [fileId : {FileId}, mimeType : MimeTypes]
  /\ now = 1
  /\ registry = <<>>
  /\ typeTables = [t \in {"invoices", "statements", "letters"} |-> <<>>]
  /\ objects = NoObjects
  /\ child = [t \in Tasks |-> IdleChild]
  /\ cacheOrder = <<>>
  /\ run = IdleRun
  /\ duplicate = IdleRun
  /\ faults = TRUE
  /\ poller = IdlePoller

\* ------------------------------- ORCHESTRATOR: process-document-workflow
StagePcs == {"register", "download", "classify", "store", "extract", "meta"}

Wrap(prefix, err) == <<prefix>> \o err

ExtractorFor(documentType) ==
  CASE documentType = "invoice" -> EXTRACT_INVOICE
    [] documentType = "bank_statement" -> EXTRACT_STATEMENT
    [] documentType = "government_letter" -> EXTRACT_LETTER

\* The child task the orchestrator triggers at its current position.
TaskAt(l) ==
  CASE l.pc = "register" -> REGISTER
    [] l.pc = "download" -> DOWNLOAD
    [] l.pc = "classify" -> CLASSIFY
    [] l.pc = "store" -> STORE
    [] l.pc = "extract" -> ExtractorFor(l.documentType)
    [] l.pc = "meta" -> METADATA

\* The payload object passed to triggerAndWait.
PayloadFor(l, t) ==
  CASE t = REGISTER ->
         [BlankPayload EXCEPT !.fileId = input.fileId, !.mimeType = input.mimeType]
    [] t = DOWNLOAD ->
         [BlankPayload EXCEPT !.docId = l.docId, !.fileId = input.fileId,
                              !.mimeType = input.mimeType]
    [] t = CLASSIFY ->
         [BlankPayload EXCEPT !.docId = l.docId, !.storagePath = l.inboxPath]
    [] t = STORE ->
         [BlankPayload EXCEPT !.docId = l.docId, !.fileId = input.fileId,
                              !.storagePath = l.inboxPath,
                              !.documentType = l.documentType]
    [] t \in Extractors ->
         [BlankPayload EXCEPT !.docId = l.docId, !.claudeFileId = l.claudeFileId]
    [] t = METADATA ->
         [BlankPayload EXCEPT !.docId = l.docId, !.documentType = l.documentType,
                              !.classification = l.classification,
                              !.extractedData = l.extractedData,
                              !.extractionError = l.extractionError]

\* The run function threw: the orchestrator's retry policy runs it again from
\* the top until maxAttempts is used up.
Throw(l, err) ==
  IF l.attempt < WorkflowMaxAttempts
  THEN FreshLocals(l.attempt + 1)
  ELSE [FreshLocals(l.attempt) EXCEPT !.pc = "threw", !.thrown = err,
                                      !.invoked = l.invoked]

Return(l, output) ==
  [FreshLocals(l.attempt) EXCEPT !.pc = "done", !.out = output,
                                 !.invoked = l.invoked]

\* STEP 0 returned
AfterRegister(l, res) ==
  IF ~res.ok
  THEN Throw(l, Wrap("Failed to register document", res.error))
  ELSE [l EXCEPT !.pc = "download", !.docId = res.output.docId,
                 !.registryId = res.output.registryId]

\* Variant that goes on to classification whatever the download returned.
AfterDownloadContinues(l, res) ==
  [l EXCEPT !.pc = "classify",
            !.inboxPath = IF res.ok THEN res.output.storagePath ELSE NoPath]

\* STEP 1 returned
AfterDownload(l, res) ==
  IF ~res.ok
  THEN Return(l, [status |-> "download_failed",
                  documentType |-> DEFAULT_DOCUMENT_TYPE,
                  confidence |-> DEFAULT_CONFIDENCE,
                  registryId |-> l.registryId, docId |-> l.docId,
                  pdfStoragePath |-> NoPath, jsonStoragePath |-> NoPath,
                  inboxCleaned |-> FALSE, error |-> res.error])
  ELSE [l EXCEPT !.pc = "classify", !.inboxPath = res.output.storagePath]

\* Variant that does not keep the file reference of the classification.
AfterClassifyDropsFileId(l, res) ==
  LET c == IF res.ok THEN res.output.classification ELSE NoClassification
      isNull == c = NoClassification
  IN [l EXCEPT !.pc = "store",
               !.classification = c,
               !.documentType = IF isNull THEN DEFAULT_DOCUMENT_TYPE
                                ELSE c.documentType,
               !.confidence = IF isNull THEN DEFAULT_CONFIDENCE ELSE c.confidence,
               !.claudeFileId = "NULL"]

\* STEP 2 returned
AfterClassify(l, res) ==
  LET c == IF res.ok THEN res.output.classification ELSE NoClassification
      isNull == c = NoClassification
  IN [l EXCEPT !.pc = "store",
               !.classification = c,
               !.documentType = IF isNull THEN DEFAULT_DOCUMENT_TYPE
                                ELSE c.documentType,
               !.confidence = IF isNull THEN DEFAULT_CONFIDENCE ELSE c.confidence,
               !.claudeFileId = IF isNull THEN "NULL" ELSE c.claudeFileId]

\* if (documentType !== "unknown" && confidence >= 0.8)
ExtractionGate(documentType, confidence) ==
  documentType # "unknown" /\ confidence >= CONFIDENCE_THRESHOLD

\* Variant that goes on to STEP 5 when store-file has failed.
AfterStoreIgnoresFailure(l, res) ==
  [l EXCEPT !.pc = "meta",
            !.pdfStoragePath = res.output.storagePath,
            !.deletedFromInbox = res.output.deletedFromInbox]

\* STEP 3 returned; STEP 4 dispatches on the document type
AfterStore(l, res) ==
  LET dispatch == /\ ExtractionGate(l.documentType, l.confidence)
                  /\ l.documentType \in {"invoice", "bank_statement",
                                         "government_letter"}
  IN IF ~res.ok
     THEN Throw(l, Wrap("File storage failed", res.error))
     ELSE [l EXCEPT !.pc = IF dispatch THEN "extract" ELSE "meta",
                    !.pdfStoragePath = res.output.storagePath,
                    !.deletedFromInbox = res.output.deletedFromInbox]

\* Variant that forgets the error of a failed extraction.
AfterExtractDropsError(l, res) ==
  [l EXCEPT !.pc = "meta",
            !.extractedData = IF res.ok THEN res.output.extractedData ELSE "NULL"]

\* STEP 4 returned
AfterExtract(l, res) ==
  [l EXCEPT !.pc = "meta",
            !.extractedData = IF res.ok THEN res.output.extractedData ELSE "NULL",
            !.extractionError = IF res.ok THEN NoError ELSE res.error]

\* Variant that reports `processed` whatever store-metadata returned.
AfterMetadataReportsProcessed(l, res) ==
  IF ~res.ok
  THEN Throw(l, Wrap("Metadata storage failed", res.error))
  ELSE Return(l, [status |-> "processed",
                  documentType |-> l.documentType,
                  confidence |-> l.confidence,
                  registryId |-> l.registryId, docId |-> l.docId,
                  pdfStoragePath |-> l.pdfStoragePath,
                  jsonStoragePath |-> res.output.jsonStoragePath,
                  inboxCleaned |-> l.deletedFromInbox,
                  error |-> NoError])

\* STEP 5 returned
AfterMetadata(l, res) ==
  IF ~res.ok
  THEN Throw(l, Wrap("Metadata storage failed", res.error))
  ELSE Return(l, [status |-> res.output.status,
                  documentType |-> l.documentType,
                  confidence |-> l.confidence,
                  registryId |-> l.registryId, docId |-> l.docId,
                  pdfStoragePath |-> l.pdfStoragePath,
                  jsonStoragePath |-> res.output.jsonStoragePath,
                  inboxCleaned |-> l.deletedFromInbox,
                  error |-> NoError])

\* The orchestrator continues after `await <task>.triggerAndWait(...)`.
Resume(l, res) ==
  CASE l.pc = "register" -> AfterRegister(l, res)
    [] l.pc = "download" -> AfterDownload(l, res)
    [] l.pc = "classify" -> AfterClassify(l, res)
    [] l.pc = "store" -> AfterStore(l, res)
    [] l.pc = "extract" -> AfterExtract(l, res)
    [] l.pc = "meta" -> AfterMetadata(l, res)

\* ------------------------------------------------- child runs and results
\* The result of a child run resumes the orchestrator waiting for it.
DeliverTo(l, t, res) ==
  IF l.wait = t THEN Resume([l EXCEPT !.wait = "none"], res) ELSE l

Deliver(t, res) == DeliverTo(run, t, res)

\* The task's run function returned: the child run completes.
Finish(t, out) ==
  /\ child' = [child EXCEPT ![t].state = "ok", ![t].attempt = 0,
                            ![t].payload = BlankPayload, ![t].output = out]
  /\ run' = Deliver(t, OkResult(out))
  /\ duplicate' = DeliverTo(duplicate, t, OkResult(out))
  /\ UNCHANGED cacheOrder

\* Variant of the retry policy that grants one attempt more than maxAttempts.
FailAttemptOnceMore(t, err, maxAttempts) ==
  IF child[t].attempt <= maxAttempts
  THEN /\ child' = [child EXCEPT ![t].attempt = @ + 1]
       /\ UNCHANGED <<run, duplicate, cacheOrder>>
  ELSE /\ child' = [child EXCEPT ![t].state = "failed", ![t].attempt = 0,
                                 ![t].payload = BlankPayload, ![t].error = err]
       /\ run' = Deliver(t, ErrResult(err))
       /\ duplicate' = DeliverTo(duplicate, t, ErrResult(err))
       /\ cacheOrder' = Remove(cacheOrder, t)

\* The task's run function threw: another attempt while the retry budget
\* lasts, otherwise the child run fails and its idempotency key is cleared.
FailAttempt(t, err, maxAttempts) ==
  IF child[t].attempt < maxAttempts
  THEN /\ child' = [child EXCEPT ![t].attempt = @ + 1]
       /\ UNCHANGED <<run, duplicate, cacheOrder>>
  ELSE /\ child' = [child EXCEPT ![t].state = "failed", ![t].attempt = 0,
                                 ![t].payload = BlankPayload, ![t].error = err]
       /\ run' = Deliver(t, ErrResult(err))
       /\ duplicate' = DeliverTo(duplicate, t, ErrResult(err))
       /\ cacheOrder' = Remove(cacheOrder, t)

\* -------------------------------------------------------------- failures
\* Message of the error a failed SQL statement, Drive, storage or Claude call
\* raises.
Failure == <<"failure">>

\* The points at which a call to a service can fail in this environment
\* ("none": no call fails), and the possible outcomes of a single call.
Possible(failPoints) == IF faults THEN failPoints ELSE {"none"}

CallSucceeds == IF faults THEN BOOLEAN ELSE {TRUE}

\* ------------------------------------------------ TASK 0: register-document
\* doc_id is UNIQUE: the INSERT raises a unique violation for a known doc_id.
InsertOutcome(reg, docId) ==
  IF HasRow(reg, docId) THEN "unique_violation" ELSE "inserted"

registerDocument ==
  /\ child[REGISTER].state = "running"
  /\ LET p == child[REGISTER].payload IN
     \E dbUp \in CallSucceeds :
       LET outcome == IF dbUp THEN InsertOutcome(registry, p.fileId)
                      ELSE "db_error"
       IN IF outcome = "inserted"
          THEN /\ registry' = InsertRegistry(registry, p.fileId, p.mimeType)
               /\ Finish(REGISTER,
                         [BlankOutput EXCEPT !.registryId = Len(registry) + 1,
                                             !.docId = p.fileId])
          ELSE /\ UNCHANGED registry
               /\ FailAttempt(REGISTER,
                              Wrap("Failed to register document", <<outcome>>),
                              RegisterMaxAttempts)
  /\ UNCHANGED <<poller, faults, input, now, typeTables, objects>>

\* --------------------------------------------- TASK 1: download-and-prepare
\* Where an attempt fails: the first UPDATE, the UPDATE of the MIME branch,
\* the transfer (Drive metadata, Drive download, upload to the inbox), the
\* last UPDATE, or nowhere.
DownloadFailPoints ==
  {"sql_downloading", "sql_mime", "transfer", "sql_downloaded", "none"}

MimeError == <<"Unsupported MIME type">>

\* The catch block: UPDATE ... SET status = <failed>, error_message; a failure
\* of this UPDATE is logged and swallowed.
CatchUpdate(reg, docId, failedStatus, thrown, errOk) ==
  IF errOk THEN SetFailure(reg, docId, failedStatus, thrown) ELSE reg

downloadAndPrepare ==
  /\ child[DOWNLOAD].state = "running"
  /\ LET p == child[DOWNLOAD].payload
         key == InboxKey(p.docId)
         regA == SetStatus(registry, p.docId, "downloading")
         badMime == p.mimeType # "application/pdf"
     IN \E fp \in Possible(DownloadFailPoints) :
          LET \* error, registry and bucket at the point the try block is left
              thrown ==
                IF fp = "sql_downloading" THEN Failure
                ELSE IF badMime
                     THEN (IF fp = "sql_mime" THEN Failure ELSE MimeError)
                ELSE IF fp \in {"transfer", "sql_downloaded"} THEN Failure
                ELSE NoError
              regT ==
                IF fp = "sql_downloading" THEN registry
                ELSE IF badMime /\ fp # "sql_mime"
                     THEN SetFailure(regA, p.docId, "download_failed", MimeError)
                ELSE regA
              uploaded == ~badMime /\ fp \in {"sql_downloaded", "none"}
          IN /\ (fp = "sql_mime") => badMime
             /\ badMime => (fp \in {"sql_downloading", "sql_mime", "none"})
             /\ objects' = IF uploaded THEN uploadFile(objects, key, "pdf")
                           ELSE objects
             /\ IF thrown = NoError
                THEN /\ registry' = SetStatus(regT, p.docId, "downloaded")
                     /\ Finish(DOWNLOAD, [BlankOutput EXCEPT !.storagePath = key])
                ELSE \E errOk \in CallSucceeds :
                     /\ registry' = CatchUpdate(regT, p.docId, "download_failed",
                                                thrown, errOk)
                     /\ FailAttempt(DOWNLOAD,
                                    Wrap("Failed to download and prepare file", thrown),
                                    DownloadMaxAttempts)
  /\ UNCHANGED <<poller, faults, input, now, typeTables>>

\* ------------------------------------------------ TASK 2: classify-document
\* Where an attempt fails: the first UPDATE, the preparation (download from
\* the inbox, upload to Claude, the classification call), the last UPDATE.
ClassifyFailPoints == {"sql_classifying", "prepare", "sql_classified", "none"}

\* Variant of the threshold test that also downgrades a confidence of exactly
\* the threshold.
FinalTypeStrict(label, confidence) ==
  IF confidence > CONFIDENCE_THRESHOLD THEN label ELSE "unknown"

\* Step 4 of the task: the confidence threshold.
FinalType(label, confidence) ==
  IF confidence >= CONFIDENCE_THRESHOLD THEN label ELSE "unknown"

ClassificationOf(label, confidence, claudeFileId) ==
  [documentType |-> FinalType(label, confidence), confidence |-> confidence,
   possibleType |-> label, claudeFileId |-> claudeFileId]

fallbackResult ==
  [documentType |-> "unknown", confidence |-> 0, possibleType |-> "unknown",
   claudeFileId |-> "NULL"]

\* UPDATE ... SET status = 'classified', classification, confidence, possible_type
SetClassified(reg, docId, c) ==
  [i \in DOMAIN reg |->
     IF reg[i].doc_id = docId
     THEN [reg[i] EXCEPT !.status = "classified",
                         !.classification = c.documentType,
                         !.confidence = c.confidence,
                         !.possible_type = c.possibleType]
     ELSE reg[i]]

\* UPDATE ... SET status = 'classification_failed', classification = 'unknown', ...
SetClassificationFailed(reg, docId, err) ==
  [i \in DOMAIN reg |->
     IF reg[i].doc_id = docId
     THEN [reg[i] EXCEPT !.status = "classification_failed",
                         !.classification = "unknown",
                         !.confidence = 0,
                         !.possible_type = "unknown",
                         !.error_message = err]
     ELSE reg[i]]

\* The catch block returns the fallback instead of throwing, so the child run
\* always completes on its first attempt.
classifyDocument ==
  /\ child[CLASSIFY].state = "running"
  /\ LET p == child[CLASSIFY].payload
         regA == SetStatus(registry, p.docId, "classifying")
         missing == ~Exists(objects, p.storagePath)
     IN \E fp \in Possible(ClassifyFailPoints) :
          LET thrown ==
                IF fp = "sql_classifying" THEN Failure
                ELSE IF missing THEN <<"File not found">>
                ELSE IF fp \in {"prepare", "sql_classified"} THEN Failure
                ELSE NoError
              regT == IF fp = "sql_classifying" THEN registry ELSE regA
          IN /\ missing => (fp \in {"sql_classifying", "none"})
             /\ IF thrown = NoError
                THEN \E label \in RawLabels, confidence \in Confidences :
                     LET result == ClassificationOf(label, confidence, "file_1")
                     IN /\ registry' = SetClassified(regT, p.docId, result)
                        /\ Finish(CLASSIFY,
                                  [BlankOutput EXCEPT !.classification = result])
                ELSE \E errOk \in CallSucceeds :
                     /\ registry' = IF errOk
                                    THEN SetClassificationFailed(regT, p.docId, thrown)
                                    ELSE regT
                     /\ Finish(CLASSIFY,
                               [BlankOutput EXCEPT !.classification = fallbackResult])
  /\ UNCHANGED <<poller, faults, input, now, typeTables, objects>>

\* ------------------------------------------------------ TASK 3: store-file
\* Where an attempt fails: the first UPDATE, the copy, the deletion of the
\* inbox copy, the last UPDATE.  A failure to move the Drive file is logged
\* and ignored and has no effect on the registry or the bucket.
StoreFailPoints == {"sql_storing", "copy", "delete", "sql_stored", "none"}

\* folderNameMap[payload.documentType] ?? "unknown"
getDocumentFolder(documentType) ==
  CASE documentType = "invoice" -> "invoices"
    [] documentType = "bank_statement" -> "statements"
    [] documentType = "government_letter" -> "letters"
    [] OTHER -> "unknown"

\* `${folderName}/${year}/${month}/${payload.docId}.pdf`
finalStoragePath(documentType, date, docId) ==
  [folder |-> getDocumentFolder(documentType), period |-> date,
   docId |-> docId, ext |-> "pdf"]

\* UPDATE ... SET status = 'stored', storage_path_pdf = path
SetStored(reg, docId, path) ==
  [i \in DOMAIN reg |->
     IF reg[i].doc_id = docId
     THEN [reg[i] EXCEPT !.status = "stored", !.storage_path_pdf = path]
     ELSE reg[i]]

\* copyFile: download the source, upload its bytes under the destination key
copyFile(objs, sourceKey, destinationKey) ==
  uploadFile(objs, destinationKey, objs[sourceKey])

\* The object store-file removes once the copy is made: the inbox copy.
StoreCleanupKey(sourceKey, destinationKey) == sourceKey

storeFile ==
  /\ child[STORE].state = "running"
  /\ LET p == child[STORE].payload
         regA == SetStatus(registry, p.docId, "storing")
         missing == ~Exists(objects, p.storagePath)
     IN \E fp \in Possible(StoreFailPoints), date \in now..MaxPeriod :
          LET dest == finalStoragePath(p.documentType, date, p.docId)
              thrown ==
                IF fp = "sql_storing" THEN Failure
                ELSE IF missing THEN <<"File not found">>
                ELSE IF fp \in {"copy", "delete", "sql_stored"} THEN Failure
                ELSE NoError
              regT == IF fp = "sql_storing" THEN registry ELSE regA
              copied == ~missing /\ fp \in {"delete", "sql_stored", "none"}
              deleted == ~missing /\ fp \in {"sql_stored", "none"}
              objsC == IF copied THEN copyFile(objects, p.storagePath, dest)
                       ELSE objects
              objsT == IF deleted
                       THEN deleteFile(objsC, StoreCleanupKey(p.storagePath, dest))
                       ELSE objsC
          IN /\ missing => (fp \in {"sql_storing", "none"})
             /\ (fp = "sql_storing") => (date = now)
             /\ now' = date
             /\ objects' = objsT
             /\ IF thrown = NoError
                THEN /\ registry' = SetStored(regT, p.docId, dest)
                     /\ Finish(STORE, [BlankOutput EXCEPT !.storagePath = dest,
                                                          !.deletedFromInbox = TRUE])
                ELSE \E errOk \in CallSucceeds :
                     /\ registry' = CatchUpdate(regT, p.docId, "store_failed",
                                                thrown, errOk)
                     /\ FailAttempt(STORE, Wrap("Failed to store file", thrown),
                                    StoreMaxAttempts)
  /\ UNCHANGED <<poller, faults, input, typeTables>>

\* --------------------------------------------- TASKS 4a-4c: the extractors
ExtractedKind(t) ==
  CASE t = EXTRACT_INVOICE -> "invoiceData"
    [] t = EXTRACT_STATEMENT -> "statementData"
    [] t = EXTRACT_LETTER -> "letterData"

ExtractPrefix(t) ==
  CASE t = EXTRACT_INVOICE -> "Failed to extract invoice data"
    [] t = EXTRACT_STATEMENT -> "Failed to extract statement data"
    [] t = EXTRACT_LETTER -> "Failed to extract letter data"

\* The extractors write nothing to the registry or the bucket.
extractData(t) ==
  /\ child[t].state = "running"
  /\ LET p == child[t].payload IN
     IF p.claudeFileId = "NULL"
     THEN FailAttempt(t, <<"Claude File ID is required">>, ExtractMaxAttempts)
     ELSE \E claudeOk \in CallSucceeds :
            IF claudeOk
            THEN Finish(t, [BlankOutput EXCEPT !.extractedData = ExtractedKind(t)])
            ELSE FailAttempt(t, Wrap(ExtractPrefix(t), Failure), ExtractMaxAttempts)
  /\ UNCHANGED <<poller, faults, input, now, registry, typeTables, objects>>

extractInvoiceData == extractData(EXTRACT_INVOICE)

extractStatementData == extractData(EXTRACT_STATEMENT)

extractLetterData == extractData(EXTRACT_LETTER)

\* --------------------------------------------------- TASK 5: store-metadata
\* Where an attempt fails: the first UPDATE, the upload of the JSON file, the
\* UPDATE of the final status, the insert into the type table.
MetadataFailPoints == {"sql_saving", "upload", "sql_final", "sql_insert", "none"}

\* Variant that writes the metadata file under the key of the canonical PDF.
jsonStoragePathOverPdf(documentType, date, docId) ==
  [folder |-> getDocumentFolder(documentType), period |-> date,
   docId |-> docId, ext |-> "pdf"]

\* `${payload.documentType}/${year}/${month}/${payload.docId}.json`
jsonStoragePath(documentType, date, docId) ==
  [folder |-> documentType, period |-> date, docId |-> docId, ext |-> "json"]

\* Variant that tests for a missing payload before the extraction error.
finalStatusPayloadFirst(extractionError, extractedData, documentType) ==
  IF extractedData = "NULL" \/ documentType = "unknown" THEN "rejected"
  ELSE IF extractionError # NoError THEN "extraction_failed"
  ELSE "processed"

\* "Determine final status"
finalStatus(extractionError, extractedData, documentType) ==
  IF extractionError # NoError THEN "extraction_failed"
  ELSE IF extractedData = "NULL" \/ documentType = "unknown" THEN "rejected"
  ELSE "processed"

\* Variant that keeps the error_message on record when there is no extraction
\* error.
SetFinalKeepsMessage(reg, docId, status, jsonPath, extractionError) ==
  [i \in DOMAIN reg |->
     IF reg[i].doc_id = docId
     THEN [reg[i] EXCEPT !.status = status, !.storage_path_json = jsonPath,
                         !.error_message = IF extractionError = NoError THEN @
                                           ELSE extractionError]
     ELSE reg[i]]

\* UPDATE ... SET status, storage_path_json, error_message = extractionError || null
SetFinal(reg, docId, status, jsonPath, extractionError) ==
  [i \in DOMAIN reg |->
     IF reg[i].doc_id = docId
     THEN [reg[i] EXCEPT !.status = status, !.storage_path_json = jsonPath,
                         !.error_message = extractionError]
     ELSE reg[i]]

TableOf(extractedData) ==
  CASE extractedData = "invoiceData" -> "invoices"
    [] extractedData = "statementData" -> "statements"
    [] extractedData = "letterData" -> "letters"

\* INSERT INTO <table> ... ON CONFLICT (doc_id) DO UPDATE SET ...
UpsertTypeRow(tt, table, docId) ==
  IF docId \in Range(tt[table]) THEN tt
  ELSE [tt EXCEPT ![table] = Append(@, docId)]

storeMetadata ==
  /\ child[METADATA].state = "running"
  /\ LET p == child[METADATA].payload
         hasData == p.extractedData # "NULL"
         final == finalStatus(p.extractionError, p.extractedData, p.documentType)
         inserts == hasData /\ final = "processed"
         regA == SetStatus(registry, p.docId, "saving_metadata")
     IN \E fp \in Possible(MetadataFailPoints), date \in now..MaxPeriod :
          LET jsonPath == IF hasData
                          THEN jsonStoragePath(p.documentType, date, p.docId)
                          ELSE NoPath
              thrown == IF fp = "none" THEN NoError ELSE Failure
              uploaded == hasData /\ fp \in {"sql_final", "sql_insert", "none"}
              regT == IF fp = "sql_saving" THEN registry
                      ELSE IF fp \in {"sql_insert", "none"}
                      THEN SetFinal(regA, p.docId, final, jsonPath, p.extractionError)
                      ELSE regA
          IN /\ (fp = "upload") => hasData
             /\ (fp = "sql_insert") => inserts
             /\ (~hasData \/ fp = "sql_saving") => (date = now)
             /\ now' = date
             /\ objects' = IF uploaded THEN uploadFile(objects, jsonPath, "json")
                           ELSE objects
             /\ IF thrown = NoError
                THEN /\ registry' = regT
                     /\ typeTables' = IF inserts
                                      THEN UpsertTypeRow(typeTables,
                                                         TableOf(p.extractedData),
                                                         p.docId)
                                      ELSE typeTables
                     /\ Finish(METADATA, [BlankOutput EXCEPT !.status = final,
                                                             !.jsonStoragePath = jsonPath])
                ELSE \E errOk \in CallSucceeds :
                     /\ registry' = CatchUpdate(regT, p.docId,
                                                "metadata_storage_failed", thrown, errOk)
                     /\ UNCHANGED typeTables
                     /\ FailAttempt(METADATA, Wrap("Failed to store metadata", thrown),
                                    MetadataMaxAttempts)
  /\ UNCHANGED <<poller, faults, input>>

\* ------------------------------------------- triggering and idempotency keys
\* Every child task is triggered with the same global key derived from the
\* fileId and a TTL; keys are scoped to the task, so each task has its own
\* entry.  Entries expire in the order of their creation: when the entry of a
\* task is found expired, so are all older ones.  A child run whose entry has
\* expired can no longer be attached to.
PositionOf(t) == CHOOSE i \in DOMAIN cacheOrder : cacheOrder[i] = t

AfterExpiry(k) == SubSeq(cacheOrder, k + 1, Len(cacheOrder))

Expire(k) ==
  [t \in Tasks |->
     IF \E i \in 1..k : cacheOrder[i] = t THEN IdleChild ELSE child[t]]

\* The workflow run is triggered for the file (by the poller or by hand).
StartRun ==
  /\ run.pc = "idle"
  /\ run' = FreshLocals(1)
  /\ UNCHANGED <<poller, faults, input, now, registry, typeTables, objects, child,
                 cacheOrder, duplicate>>

\* No child run that carries one of the k oldest keys is still executing.
Settled(k) == \A i \in 1..k : child[cacheOrder[i]].state # "running"

\* await <task>.triggerAndWait(payload, {idempotencyKey, idempotencyKeyTTL})
\* in the orchestrator with locals l0; `next` is what becomes of the locals.
\* A live key attaches the caller to the child run that carries it: the
\* caller waits for it if it is still executing and gets its output at once
\* if it has completed.  Otherwise a new child run starts and the caller
\* waits for it.
TriggerChild(l0, next) ==
  LET t == TaskAt(l0)
      l == [l0 EXCEPT !.invoked = @ \cup {t}]
      NewChild == [IdleChild EXCEPT !.state = "running", !.attempt = 1,
                                    !.payload = PayloadFor(l, t)]
  IN IF t \in Range(cacheOrder)
     THEN \E expired \in BOOLEAN :
            IF expired
            THEN /\ Settled(PositionOf(t))
                 /\ next = [l EXCEPT !.wait = t]
                 /\ cacheOrder' = Append(AfterExpiry(PositionOf(t)), t)
                 /\ child' = [Expire(PositionOf(t)) EXCEPT ![t] = NewChild]
            ELSE /\ next = IF child[t].state = "running"
                           THEN [l EXCEPT !.wait = t]
                           ELSE Resume(l, OkResult(child[t].output))
                 /\ UNCHANGED <<child, cacheOrder>>
     ELSE /\ next = [l EXCEPT !.wait = t]
          /\ cacheOrder' = Append(cacheOrder, t)
          /\ child' = [child EXCEPT ![t] = NewChild]

TriggerAndWait ==
  /\ run.pc \in StagePcs
  /\ run.wait = "none"
  /\ TriggerChild(run, run')
  /\ UNCHANGED <<poller, faults, input, now, registry, typeTables, objects, duplicate>>

Next ==
  \/ StartRun
  \/ TriggerAndWait
  \/ registerDocument
  \/ downloadAndPrepare
  \/ classifyDocument
  \/ storeFile
  \/ extractInvoiceData
  \/ extractStatementData
  \/ extractLetterData
  \/ storeMetadata

Spec == Init /\ [][Next]_vars


\* ============================================================== PROPERTIES
\* The registry row of the source file (when it exists).
Row == RowOf(registry, FileId)

\* `stored` and the statuses that follow it in the status graph.
AtOrAfterStored(status) ==
  status \in {"stored", "extracting", "extracted", "extraction_failed",
              "saving_metadata", "metadata_storage_failed", "processed",
              "rejected"}

\* The attempt of task t in progress returns (the child run completes).
Completes(t) == child[t].state = "running" /\ child'[t].state = "ok"

\* The child run of task t fails for good (its retries are used up).
Exhausts(t) == child[t].state = "running" /\ child'[t].state = "failed"

\* ---------------------------------------------------------------------- C1
\* C1 (state part): whenever a confidence below 0.8 is on record, the
\* documentType in the registry, in the orchestrator, in the payloads of
\* store-file and store-metadata and in the workflow output is `unknown`, and
\* no extractor has been invoked by that execution of the orchestrator.
C1_LowConfidenceIsUnknown ==
  /\ \A i \in DOMAIN registry :
       (registry[i].confidence \in 0..(CONFIDENCE_THRESHOLD - 1))
         => registry[i].classification = "unknown"
  /\ (run.pc \in {"store", "extract", "meta"}
        /\ run.confidence < CONFIDENCE_THRESHOLD)
       => /\ run.documentType = "unknown"
          /\ run.invoked \cap Extractors = {}
          /\ \A t \in {STORE, METADATA} :
               child[t].state = "running"
                 => child[t].payload.documentType = "unknown"
  /\ (run.pc = "done" /\ run.out.confidence < CONFIDENCE_THRESHOLD)
       => /\ run.out.documentType = "unknown"
          /\ run.invoked \cap Extractors = {}

\* C1 (step part): a classification returned by the classifier is written to
\* the registry as returned to the orchestrator, possible_type being the raw
\* label; below 0.8 the document type is `unknown`, at 0.8 or above it is the
\* raw label.
C1_ClassifyStep ==
  (Completes(CLASSIFY)
     /\ child'[CLASSIFY].output.classification # fallbackResult)
    => LET c == child'[CLASSIFY].output.classification
           row == RowOf(registry', FileId)
       IN /\ row.status = "classified"
          /\ row.possible_type = c.possibleType
          /\ row.confidence = c.confidence
          /\ row.classification = c.documentType
          /\ c.possibleType \in RawLabels
          /\ (c.confidence < CONFIDENCE_THRESHOLD) => (c.documentType = "unknown")
          /\ (c.confidence >= CONFIDENCE_THRESHOLD)
               => (c.documentType = c.possibleType)

\* C1: confidence gating.  A classifier result below 0.8 is recorded and
\* passed on as `unknown` whatever the raw label, which possible_type keeps,
\* and no extractor runs; exactly 0.8 is not downgraded.
C1_ConfidenceGating == []C1_LowConfidenceIsUnknown /\ [][C1_ClassifyStep]_vars

\* A run that ended after the classifier answered "invoice" with 0.79: the
\* record is `unknown` with possible_type "invoice" and no extractor ran.
C1_Witness ==
  /\ run.pc = "done"
  /\ run.out.confidence = 79
  /\ run.out.documentType = "unknown"
  /\ run.invoked \cap Extractors = {}
  /\ HasRow(registry, FileId)
  /\ Row.confidence = 79
  /\ Row.possible_type = "invoice"
  /\ Row.classification = "unknown"


\* ---------------------------------------------------------------------- C2
\* The object keys holding a permanent PDF (everything but the inbox copy).
CanonicalKeys(objs) ==
  {k \in DOMAIN objs : k.ext = "pdf" /\ k.folder # "inbox"}

C3_StoredImpliesCanonicalOnly ==
  (HasRow(registry, FileId) /\ AtOrAfterStored(Row.status))
    => /\ Exists(objects, Row.storage_path_pdf)
       /\ ~Exists(objects, InboxKey(FileId))

\* C3 (step part): a step that deletes the staging copy leaves a canonical
\* PDF in the bucket.
C3_DeleteAfterCopy ==
  (Exists(objects, InboxKey(FileId)) /\ ~Exists(objects', InboxKey(FileId)))
    => CanonicalKeys(objects') # {}

\* C3: safe-point invariant.  Whenever the status is `stored` or later the
\* canonical PDF exists at storage_path_pdf and the staging copy is gone, and
\* the staging copy is never deleted before the canonical copy is written.
C3_SafePointInvariant ==
  []C3_StoredImpliesCanonicalOnly /\ [][C3_DeleteAfterCopy]_vars


\* ---------------------------------------------------------------------- C4
\* C4: idempotence of the whole pipeline.  However often the pipeline is
\* executed for the source file, there is at most one income_registry record
\* for it, at most one canonical PDF in the bucket, and at most one row for it
\* in each of invoices, statements and letters.
C4_PipelineIdempotent ==
  /\ Cardinality({i \in DOMAIN registry : registry[i].doc_id = FileId}) <= 1
  /\ Cardinality(CanonicalKeys(objects)) <= 1
  /\ \A table \in DOMAIN typeTables :
       Cardinality({i \in DOMAIN typeTables[table] :
                      typeTables[table][i] = FileId}) <= 1


\* ---------------------------------------------------------------------- C5
\* An attempt of register-document runs while the file already has a record.
RegistersKnownFile ==
  /\ child[REGISTER].state = "running"
  /\ HasRow(registry, FileId)
  /\ child'[REGISTER] # child[REGISTER]

\* C5: registration has upsert semantics.  A register-document run executed
\* for a fileId that already has a record fails only when the database cannot
\* be reached (never on the existing record), a completed one returns that
\* record's docId and registryId, and exactly one record is left.
C5_RegisterUpserts ==
  [][RegistersKnownFile
       => /\ Cardinality({i \in DOMAIN registry' :
                            registry'[i].doc_id = FileId}) = 1
          /\ Exhausts(REGISTER)
               => child'[REGISTER].error
                    = Wrap("Failed to register document", <<"db_error">>)
          /\ Completes(REGISTER)
               => /\ child'[REGISTER].output.docId = FileId
                  /\ child'[REGISTER].output.registryId
                       = RowOf(registry', FileId).id]_vars


\* ---------------------------------------------------------------------- C6
\* C6: monotonic status after the safe point.  Once the status is `stored` or
\* later, no step (stage attempt, task retry, orchestrator retry) leaves the
\* record with a status that precedes `stored`.
C6_NoRevertBelowStored ==
  [][(HasRow(registry, FileId) /\ AtOrAfterStored(Row.status))
       => AtOrAfterStored(RowOf(registry', FileId).status)]_vars

\* ---------------------------------------------------------------------- C7
\* The edges of the specified status graph (extracting and extracted are
\* optional; a failed store-metadata may be followed by another attempt).
StatusEdges ==
  {<<"new", "downloading">>,
   <<"downloading", "downloaded">>, <<"downloading", "download_failed">>,
   <<"downloaded", "classifying">>,
   <<"classifying", "classified">>, <<"classifying", "classification_failed">>,
   <<"classified", "storing">>, <<"classification_failed", "storing">>,
   <<"storing", "stored">>, <<"storing", "store_failed">>,
   <<"stored", "extracting">>, <<"stored", "saving_metadata">>,
   <<"extracting", "extracted">>, <<"extracting", "extraction_failed">>,
   <<"extracted", "saving_metadata">>, <<"extraction_failed", "saving_metadata">>,
   <<"saving_metadata", "metadata_storage_failed">>,
   <<"metadata_storage_failed", "saving_metadata">>,
   <<"saving_metadata", "processed">>, <<"saving_metadata", "rejected">>,
   <<"saving_metadata", "extraction_failed">>}

\* The statuses reachable from a set of statuses along the edges.
RECURSIVE ReachableFrom(_)
ReachableFrom(S) ==
  LET T == S \cup {e[2] : e \in {d \in StatusEdges : d[1] \in S}}
  IN IF T = S THEN S ELSE ReachableFrom(T)

\* C7: status-graph conformance.  The statuses written to the record follow
\* the edges of the status graph (one step of a task attempt may write
\* several); download_failed and store_failed have no outgoing edge, so once
\* either is written the status does not change again.
C7_StatusGraph ==
  [][HasRow(registry, FileId)
       => RowOf(registry', FileId).status \in ReachableFrom({Row.status})]_vars


\* ---------------------------------------------------------------------- C8
\* store-metadata on its own: one child run for a registered and stored
\* document, with every combination of document type, extracted payload and
\* extraction error as its payload.
ExtractedKinds == {"NULL", "invoiceData", "statementData", "letterData"}

ExtractionErrors == {NoError, Wrap("Failed to extract invoice data", Failure)}

MetadataPayloads ==
  {[BlankPayload EXCEPT !.docId = FileId, !.documentType = documentType,
                        !.extractedData = extractedData,
                        !.extractionError = extractionError] :
     documentType \in RawLabels, extractedData \in ExtractedKinds,
     extractionError \in ExtractionErrors}

InitMeta ==
  /\ input = [fileId |-> FileId, mimeType |-> "application/pdf"]
  /\ now = 1
  /\ \E documentType \in DocumentTypes :
       LET path == finalStoragePath(documentType, 1, FileId)
       IN /\ registry = SetStored(InsertRegistry(<<>>, FileId, "application/pdf"),
                                  FileId, path)
          /\ objects = uploadFile(NoObjects, path, "pdf")
  /\ typeTables = [t \in {"invoices", "statements", "letters"} |-> <<>>]
  /\ \E p \in MetadataPayloads :
       child = [t \in Tasks |->
                  IF t = METADATA
                  THEN [IdleChild EXCEPT !.state = "running", !.attempt = 1,
                                         !.payload = p]
                  ELSE IdleChild]
  /\ cacheOrder = <<METADATA>>
  /\ run = IdleRun
  /\ duplicate = IdleRun
  /\ faults = TRUE
  /\ poller = IdlePoller

NextMeta == storeMetadata

SpecMeta == InitMeta /\ [][NextMeta]_vars

\* C8: final-status derivation.  For every combination of extraction error,
\* extracted payload and document type, a store-metadata attempt that
\* completes writes to the registry and returns `extraction_failed` if an
\* extraction error is present, otherwise `rejected` if there is no payload
\* or the type is `unknown`, otherwise `processed`.
C8_FinalStatusDerivation ==
  [][Completes(METADATA)
       => LET p == child[METADATA].payload
              written == RowOf(registry', p.docId).status
              returned == child'[METADATA].output.status
          IN /\ written = returned
             /\ (p.extractionError # NoError) => (returned = "extraction_failed")
             /\ (p.extractionError = NoError
                   /\ (p.extractedData = "NULL" \/ p.documentType = "unknown"))
                  => (returned = "rejected")
             /\ (p.extractionError = NoError /\ p.extractedData # "NULL"
                   /\ p.documentType # "unknown")
                  => (returned = "processed")]_vars

\* store-metadata completed for a payload with extracted data but document
\* type `unknown` (the JSON file is under unknown/): the status is `rejected`.
C8_Witness ==
  /\ child[METADATA].state = "ok"
  /\ child[METADATA].output.jsonStoragePath.folder = "unknown"
  /\ child[METADATA].output.status = "rejected"
  /\ Row.status = "rejected"

\* ---------------------------------------------------------------------- C9
\* C9: canonical path convention.  The path store-file records and returns is
\* {documentType}/{year}/{month}/{docId}.pdf, the folder being the
\* documentType it was given.
C9_CanonicalPath ==
  [][Completes(STORE)
       => LET p == child[STORE].payload
              expected == [folder |-> p.documentType, period |-> now',
                           docId |-> p.docId, ext |-> "pdf"]
          IN /\ child'[STORE].output.storagePath = expected
             /\ RowOf(registry', p.docId).storage_path_pdf = expected]_vars


\* --------------------------------------------------------------------- C10
\* What the orchestrator does when download-and-prepare has failed for good:
\* it returns status download_failed, type unknown, confidence 0 and
\* inboxCleaned false, and has invoked nothing beyond register and download.
AbortsAfterDownload(l) ==
  /\ l.pc = "done"
  /\ l.out.status = "download_failed"
  /\ l.out.documentType = "unknown"
  /\ l.out.confidence = 0
  /\ l.out.inboxCleaned = FALSE
  /\ l.invoked \subseteq {REGISTER, DOWNLOAD}

TriggersMetadata ==
  /\ run.pc = "meta" /\ run.wait = "none"
  /\ run'.wait = METADATA

ClassificationFails ==
  /\ Completes(CLASSIFY)
  /\ run.wait = CLASSIFY
  /\ child'[CLASSIFY].output.classification = fallbackResult

\* What the orchestrator does with a failed classification: it goes on to
\* store-file with type `unknown`, the file is stored in the `unknown`
\* folder, no extractor is invoked, and when store-metadata completes the
\* workflow returns `rejected`.
ContinuesAsUnknown ==
  /\ ClassificationFails
       => /\ run'.pc = "store"
          /\ run'.documentType = "unknown"
          /\ run'.confidence = 0
  /\ (run.pc = "store" /\ run.wait = "none" /\ run'.wait = STORE
        /\ run.classification = fallbackResult)
       => child'[STORE].payload.documentType = "unknown"
  /\ (Completes(STORE) /\ run.wait = STORE
        /\ run.classification = fallbackResult)
       => /\ child'[STORE].output.storagePath.folder = "unknown"
          /\ Exists(objects', child'[STORE].output.storagePath)
          /\ run'.pc = "meta"
  /\ (Completes(METADATA) /\ run.wait = METADATA
        /\ run.classification = fallbackResult)
       => /\ run'.pc = "done"
          /\ run'.out.status = "rejected"
          /\ run'.out.documentType = "unknown"
          /\ run'.out.pdfStoragePath.folder = "unknown"
          /\ run'.invoked \cap Extractors = {}

\* C12: classification failure degrades and continues.  When classification
\* fails the record gets classification
\* `unknown`, confidence 0 and status `classification_failed`; the
\* orchestrator still invokes store-file (the file goes to the `unknown`
\* folder), invokes no extractor, and the run ends with status `rejected`.
C12_ClassificationFailureDegrades ==
  [][/\ ClassificationFails
          => /\ RowOf(registry', FileId).classification = "unknown"
             /\ RowOf(registry', FileId).confidence = 0
             /\ RowOf(registry', FileId).status = "classification_failed"
     /\ ContinuesAsUnknown]_vars

\* --------------------------------------------------------------------- C13
\* C13: no error crosses the orchestrator boundary.  Whatever stages fail,
\* processDocumentWorkflow never ends by throwing, and a store-file failure
\* is returned as a WorkflowOutput with status `store_failed`.
C13_NoErrorCrossesBoundary ==
  /\ [](run.pc # "threw")
  /\ [][(Exhausts(STORE) /\ run.wait = STORE)
          => /\ run'.pc = "done"
             /\ run'.out.status = "store_failed"]_vars

\* --------------------------------------------------------------------- C14
\* The status a fatal stage records when it fails.
FailedStatusOf(t) ==
  CASE t = DOWNLOAD -> {"download_failed"}
    [] t = STORE -> {"store_failed"}
    [] OTHER -> DocumentStatus

\* C14: fatal-and-abort failures are recorded.  When register-document,
\* download-and-prepare or store-file fails with its retries used up, the
\* run stops there (it invokes no later stage) and the registry holds a record
\* for the docId whose status (`download_failed`, `store_failed`) and error
\* message describe the failure.
C14_FatalFailuresRecorded ==
  [][\A t \in {REGISTER, DOWNLOAD, STORE} :
       (Exhausts(t) /\ run.wait = t)
         => /\ run'.pc \in {"done", "threw"}
            /\ HasRow(registry', FileId)
            /\ RowOf(registry', FileId).status \in FailedStatusOf(t)
            /\ RowOf(registry', FileId).error_message # NoError]_vars

\* --------------------------------------------------------------------- C15
\* The orchestrator is in its retry after store-metadata failed for good.
RetryAfterMetadataFailure ==
  /\ run.attempt > 1
  /\ run.pc \in StagePcs
  /\ child[METADATA].state = "failed"

\* C15: resume at Persist-Metadata.  In the orchestrator's retry after
\* store-metadata has failed with its retries used up, no task other than
\* store-metadata is executed again: register, download, classify, store and
\* the extractors are not run a second time.
C15_ResumeAtMetadata ==
  [][RetryAfterMetadataFailure
       => \A t \in Tasks \ {METADATA} : child'[t].state # "running"]_vars

\* --------------------------------------------------------------------- C16
\* A new child run of task t starts executing in this step.
Starts(t) == child[t].state # "running" /\ child'[t].state = "running"

\* The side effect of the stage has been committed: the row inserted by
\* register-document exists; the inbox copy written by download-and-prepare
\* exists or has been moved on; store-file has recorded the permanent path.
Committed(t) ==
  CASE t = REGISTER -> HasRow(registry, FileId)
    [] t = DOWNLOAD -> \/ Exists(objects, InboxKey(FileId))
                       \/ HasRow(registry, FileId) /\ Row.storage_path_pdf # NoPath
    [] t = STORE -> HasRow(registry, FileId) /\ Row.storage_path_pdf # NoPath

\* C16: idempotency scope.  With the one key derived from the fileId passed
\* to every stage, running the orchestrator again for the same fileId never
\* executes again a stage whose side effect (row insert, artifact write) has
\* been committed, whether or not the TTL of the key has elapsed.
C16_IdempotencyScope ==
  [][\A t \in {REGISTER, DOWNLOAD, STORE} : Committed(t) => ~Starts(t)]_vars

\* --------------------------------------------------------------------- C17
\* C17: no reprocessing after the safe point.  Once the document has been
\* brought to `stored` (its permanent path is on record), no later execution
\* of the workflow runs download-and-prepare, classify-document or
\* store-file for the file again.
C17_NoReprocessingAfterStored ==
  [][(HasRow(registry, FileId) /\ Row.storage_path_pdf # NoPath)
       => \A t \in {DOWNLOAD, CLASSIFY, STORE} : ~Starts(t)]_vars

\* --------------------------------------------------------------------- C20
\* C20: documentType domain.  Whatever raw label the classifier returns, the
\* document type stored in the registry, passed to store-file and returned in
\* the WorkflowOutput is one of invoice, bank_statement, government_letter
\* and unknown.
C20_DocumentTypeDomain ==
  /\ \A i \in DOMAIN registry :
       registry[i].classification # "NULL"
         => registry[i].classification \in DocumentTypes
  /\ child[STORE].state = "running"
       => child[STORE].payload.documentType \in DocumentTypes
  /\ run.pc = "done" => run.out.documentType \in DocumentTypes

\* --------------------------------------------------------------------- C19
\* Two workflow runs for the same file: the poller triggers the workflow
\* again while the first run is in progress.  Both orchestrators use the same
\* idempotency key, hence the same child runs.  No service fails here, so
\* whatever fails does so because of the other run.
\*
\* The first run has registered, downloaded, classified (as c) and stored the
\* file and is about to go on with STEP 4.
AtSafePoint(c) ==
  LET path == finalStoragePath(c.documentType, 1, FileId)
      outs == [t \in Tasks |->
                 CASE t = REGISTER -> [BlankOutput EXCEPT !.registryId = 1,
                                                          !.docId = FileId]
                   [] t = DOWNLOAD -> [BlankOutput EXCEPT
                                         !.storagePath = InboxKey(FileId)]
                   [] t = CLASSIFY -> [BlankOutput EXCEPT !.classification = c]
                   [] t = STORE -> [BlankOutput EXCEPT !.storagePath = path,
                                                       !.deletedFromInbox = TRUE]
                   [] OTHER -> BlankOutput]
      l1 == AfterRegister(FreshLocals(1), OkResult(outs[REGISTER]))
      l2 == AfterDownload(l1, OkResult(outs[DOWNLOAD]))
      l3 == AfterClassify(l2, OkResult(outs[CLASSIFY]))
      l4 == AfterStore(l3, OkResult(outs[STORE]))
  IN /\ input = [fileId |-> FileId, mimeType |-> "application/pdf"]
     /\ now = 1
     /\ registry = SetStored(SetClassified(InsertRegistry(<<>>, FileId,
                                                          "application/pdf"),
                                           FileId, c),
                             FileId, path)
     /\ typeTables = [t \in {"invoices", "statements", "letters"} |-> <<>>]
     /\ objects = uploadFile(NoObjects, path, "pdf")
     /\ child = [t \in Tasks |->
                   IF t \in {REGISTER, DOWNLOAD, CLASSIFY, STORE}
                   THEN [IdleChild EXCEPT !.state = "ok", !.output = outs[t]]
                   ELSE IdleChild]
     /\ cacheOrder = <<REGISTER, DOWNLOAD, CLASSIFY, STORE>>
     /\ run = [l4 EXCEPT !.invoked = {REGISTER, DOWNLOAD, CLASSIFY, STORE}]

\* The poller has just triggered the second run.
InitDup ==
  /\ \E label \in RawLabels, confidence \in Confidences :
       AtSafePoint(ClassificationOf(label, confidence, "file_1"))
  /\ duplicate = FreshLocals(1)
  /\ faults = FALSE
  /\ poller = IdlePoller

TriggerAndWaitDuplicate ==
  /\ duplicate.pc \in StagePcs
  /\ duplicate.wait = "none"
  /\ TriggerChild(duplicate, duplicate')
  /\ UNCHANGED <<poller, faults, input, now, registry, typeTables, objects, run>>

NextDup ==
  \/ TriggerAndWait
  \/ TriggerAndWaitDuplicate
  \/ registerDocument
  \/ downloadAndPrepare
  \/ classifyDocument
  \/ storeFile
  \/ extractInvoiceData
  \/ extractStatementData
  \/ extractLetterData
  \/ storeMetadata

SpecDup == InitDup /\ [][NextDup]_vars

\* The orchestrator with locals l, in its first execution, is told that
\* register-document failed for good although the file is registered.
FailsOnRegisteredFile(l) ==
  /\ l.attempt = 1
  /\ l.wait = REGISTER
  /\ Exhausts(REGISTER)
  /\ HasRow(registry, FileId)

\* C19: duplicate runs converge.  Of two concurrent runs for the same fileId
\* neither fails because of the other, the registry holds one record, and
\* when both have returned they report the same final status and paths,
\* which are those of the record.
C19_DuplicateRunsConverge ==
  /\ [](Len(registry) <= 1)
  /\ []((run.pc = "done" /\ duplicate.pc = "done")
          => /\ run.out.status = duplicate.out.status
             /\ run.out.pdfStoragePath = duplicate.out.pdfStoragePath
             /\ run.out.jsonStoragePath = duplicate.out.jsonStoragePath
             /\ Row.status = run.out.status
             /\ Row.storage_path_pdf = run.out.pdfStoragePath)
  /\ [][~FailsOnRegisteredFile(run) /\ ~FailsOnRegisteredFile(duplicate)]_vars

\* --------------------------------------------------------------------- C21
\* The statuses store-metadata writes as the final status of a document.
FinalStatuses == {"processed", "rejected", "extraction_failed"}

\* C21: terminal statuses are absorbing.  A status `processed`, `rejected` or
\* `extraction_failed` on record is not changed by any later step; and the
\* step in which store-metadata writes the final status (the UPDATE that also
\* writes storage_path_json) leaves that status on record, it is not
\* replaced in the same attempt, for example by `metadata_storage_failed`.
C21_TerminalStatusAbsorbing ==
  [][HasRow(registry, FileId)
       => /\ Row.status \in FinalStatuses
               => RowOf(registry', FileId).status = Row.status
          /\ RowOf(registry', FileId).storage_path_json # Row.storage_path_json
               => RowOf(registry', FileId).status \in FinalStatuses]_vars

\* --------------------------------------------------------------------- C22
\* The workflow run has stopped: it returned or threw for good.
Stopped(l) == l.pc \in {"done", "threw"}

\* C22: termination in a terminal state.  A run that has registered its
\* document and has stopped leaves the record in one of the terminal
\* statuses download_failed, store_failed, processed, rejected and
\* extraction_failed.
C22_StopsInTerminalStatus ==
  (Stopped(run) /\ HasRow(registry, FileId))
    => Row.status \in {"download_failed", "store_failed", "processed",
                       "rejected", "extraction_failed"}

\* --------------------------------------------------------------------- C23
\* The stages that must have been invoked, in this execution of the
\* orchestrator, before task t is.
StagesBefore(t) ==
  CASE t = REGISTER -> {}
    [] t = DOWNLOAD -> {REGISTER}
    [] t = CLASSIFY -> {REGISTER, DOWNLOAD}
    [] t = STORE -> {REGISTER, DOWNLOAD, CLASSIFY}
    [] OTHER -> {REGISTER, DOWNLOAD, CLASSIFY, STORE}

\* C23: stage ordering within a run.  In one execution of the orchestrator
\* the stages are invoked in the order register, download, classify,
\* store-file, at most one extractor, store-metadata, each at most once and
\* only when the previous invocation has returned; store-metadata is invoked
\* only when store-file has succeeded.
C23_StageOrdering ==
  [][\A t \in Tasks :
       (run'.attempt = run.attempt /\ t \notin run.invoked
          /\ t \in run'.invoked)
         => /\ run.wait = "none"
            /\ run'.invoked = run.invoked \cup {t}
            /\ run.invoked \ Extractors = StagesBefore(t)
            /\ t \in Extractors => run.invoked \cap Extractors = {}
            /\ t # METADATA => run.invoked \cap Extractors = {}
            /\ Cardinality(run.invoked \cap Extractors) <= 1
            /\ t = METADATA
                 => /\ run.pdfStoragePath # NoPath
                    /\ run.deletedFromInbox
                    /\ Exists(objects, run.pdfStoragePath)]_vars

\* A run that went through all six stages, with one extractor.
C23_Witness ==
  /\ run.pc = "done"
  /\ run.invoked = {REGISTER, DOWNLOAD, CLASSIFY, STORE, EXTRACT_STATEMENT,
                    METADATA}
  /\ run.out.status = "processed"

\* --------------------------------------------------------------------- C24
\* classify-document completes with the `unknown` default it substitutes for
\* a failed classification.
SubstitutesDefault ==
  /\ Completes(CLASSIFY)
  /\ child'[CLASSIFY].output.classification = fallbackResult

\* C24: classification is retried before it degrades.  An error inside the
\* classify stage is re-attempted under the stage's retry policy, and the
\* `unknown` default is substituted only by the attempt that exhausts the
\* retry budget of 10 attempts.
C24_ClassificationRetried ==
  [][SubstitutesDefault => child[CLASSIFY].attempt = ClassifyMaxAttempts]_vars

\* --------------------------------------------------------------------- C25
\* The run function of the orchestrator is executed again in this step.
ExecutedAgain == run.attempt >= 1 /\ run'.attempt > run.attempt

\* C25: whole-pipeline retry is bounded and happens only after the safe
\* point.  The orchestrator body is executed at most twice per triggered run,
\* and a second execution begins only when store-metadata has failed: a
\* failure of register-document or of store-file does not make the pipeline
\* run again.
C25_RetryOnlyAfterSafePoint ==
  /\ [](run.attempt <= 2)
  /\ [][ExecutedAgain
         => /\ run.wait = METADATA
            /\ Exhausts(METADATA)]_vars

\* --------------------------------------------------------------------- C26
\* The number of attempts each stage's policy allows.
RetryBudget(t) ==
  CASE t \in {REGISTER, METADATA} -> 3
    [] t \in {DOWNLOAD, STORE} -> 5
    [] OTHER -> 10

RunCompletes == run.wait = METADATA /\ run'.pc = "done"

\* What became of extraction in the execution that completes.
ExtractorInvoked == run.invoked \cap Extractors # {}

ExtractorSucceeded ==
  \E t \in run.invoked \cap Extractors : run.extractedData = ExtractedKind(t)

ExtractorFailed ==
  /\ ExtractorInvoked
  /\ run.extractedData = "NULL"
  /\ run.extractionError # NoError

Attempts(t) == child[t].state = "running" /\ child'[t] # child[t]

\* C28: extraction is checkpointed in the registry.  In a run where an
\* extractor is invoked the record, `stored` before, says `extracting` while
\* the extractor is at work, `extracted` once it has succeeded and
\* `extraction_failed` once it has failed for good, before store-metadata
\* writes `saving_metadata`.
C28_ExtractionCheckpointed ==
  [][\A t \in Extractors :
       /\ Attempts(t)
            => RowOf(registry', FileId).status
                 \in {"extracting", "extracted", "extraction_failed"}
       /\ Completes(t) => RowOf(registry', FileId).status = "extracted"
       /\ Exhausts(t) => RowOf(registry', FileId).status = "extraction_failed"]_vars

\* --------------------------------------------------------------------- C29
\* store-file is executed again after an attempt that stopped part-way.
StoreRetried == child[STORE].state = "running" /\ child[STORE].attempt > 1

\* C29: store is safely retryable.  A re-execution of store-file after an
\* attempt that stopped at any point finds what it needs to succeed (the file
\* it copies from), and when it completes the state is that of one
\* uninterrupted successful execution: the canonical artifact is present and
\* is the only one, the staging copy is absent, and the status is `stored`.
C29_StoreRetryable ==
  /\ [](StoreRetried => Exists(objects, child[STORE].payload.storagePath))
  /\ [][(StoreRetried /\ Completes(STORE))
         => /\ RowOf(registry', FileId).status = "stored"
            /\ CanonicalKeys(objects')
                 = {RowOf(registry', FileId).storage_path_pdf}
            /\ ~Exists(objects', InboxKey(FileId))]_vars

\* --------------------------------------------------------------------- C30
\* The key that differs from key k in the extension only.
WithExtension(k, ext) == [k EXCEPT !.ext = ext]

\* C30: metadata sits next to the PDF.  For every processed document the
\* path of the metadata JSON written by store-metadata and the path of the
\* canonical PDF written by store-file have the same
\* {type}/{year}/{month}/{docId} prefix and differ only in the extension.
C30_MetadataNextToPdf ==
  (HasRow(registry, FileId) /\ Row.status = "processed")
    => /\ Row.storage_path_pdf.ext = "pdf"
       /\ Row.storage_path_json = WithExtension(Row.storage_path_pdf, "json")
       /\ Exists(objects, Row.storage_path_json)

\* --------------------------------------------------------------------- C31
\* The tasks that write the income_registry row.
RegistryWriters == Tasks \ Extractors

\* This step changes the file's row through a child run that the workflow run
\* with locals l waits for and the run with locals other does not.
WritesAlone(l, other) ==
  /\ l.wait \in RegistryWriters
  /\ other.wait # l.wait
  /\ child[l.wait].state = "running"
  /\ child'[l.wait] # child[l.wait]
  /\ RowOf(registry', FileId) # Row

\* C31: single owner per record.  The first run has registered the file's
\* record and written it up to `stored`; while it is in progress, the run the
\* poller triggered for the same file in the meantime does not write the
\* record through a child run of its own, so that at most one active run is
\* writing the row.
C31_SingleOwner ==
  [][~(run.pc \in StagePcs /\ WritesAlone(duplicate, run))]_vars

\* --------------------------------------------------------------------- C32
\* The payload's MIME type is not application/pdf.
UnsupportedMime == input.mimeType # "application/pdf"

\* What the workflow does when download-and-prepare has failed for good: it
\* returns status download_failed.
ReturnsDownloadFailed ==
  /\ run'.pc = "done"
  /\ run'.out.status = "download_failed"

TableFor(classification) ==
  CASE classification = "invoice" -> "invoices"
    [] classification = "bank_statement" -> "statements"
    [] classification = "government_letter" -> "letters"
    [] OTHER -> "none"

\* C33: processed implies persisted data.  In every state where the record's
\* status is `processed`, the metadata JSON object exists at storage_path_json
\* and the type-specific table that goes with the document (invoices,
\* statements or letters) holds a row for the docId.
C33_ProcessedImpliesPersisted ==
  (HasRow(registry, FileId) /\ Row.status = "processed")
    => /\ Row.storage_path_json # NoPath
       /\ Exists(objects, Row.storage_path_json)
       /\ TableFor(Row.classification) \in DOMAIN typeTables
       /\ FileId \in Range(typeTables[TableFor(Row.classification)])

\* --------------------------------------------------------------------- C34
\* The orchestrator invokes extractor t in this step.
InvokesExtractor(t) == t \notin run.invoked /\ t \in run'.invoked

FileIdRequired == <<"Claude File ID is required">>

\* C34: extractors always get a file reference.  Whenever the orchestrator
\* invokes an extractor the claudeFileId it passes is not null, a child run
\* started by the invocation has a non-null claudeFileId in its payload, and
\* no extractor ever fails with `Claude File ID is required`.
C34_ExtractorsGetFileReference ==
  /\ [](\A t \in Extractors : child[t].error # FileIdRequired)
  /\ [](run.extractionError # FileIdRequired)
  /\ [][\A t \in Extractors :
         InvokesExtractor(t)
           => /\ run.claudeFileId # "NULL"
              /\ PayloadFor(run, t).claudeFileId # "NULL"
              /\ Starts(t) => child'[t].payload.claudeFileId # "NULL"]_vars

\* An extractor is at work on the file reference the classification returned.
C34_Witness ==
  /\ run.wait = EXTRACT_LETTER
  /\ child[EXTRACT_LETTER].state = "running"
  /\ child[EXTRACT_LETTER].payload.claudeFileId = "file_1"

\* --------------------------------------------------------------------- C35
\* processDocumentWorkflow returns a WorkflowOutput in this step.
Returns == run.pc # "done" /\ run'.pc = "done"

TablesHolding(docId) ==
  {table \in DOMAIN typeTables : docId \in Range(typeTables[table])}

\* C36: type-table consistency.  At most one of the tables invoices,
\* statements and letters ever holds a row for the docId, a row is written
\* only by a store-metadata execution whose final status is `processed`, and
\* the table holding the row is the one that goes with the classification on
\* record.
C36_TypeTableConsistency ==
  /\ [](Cardinality(TablesHolding(FileId)) <= 1)
  /\ [](\A table \in TablesHolding(FileId) :
          table = TableFor(Row.classification))
  /\ [][typeTables' # typeTables
         => /\ Completes(METADATA)
            /\ child'[METADATA].output.status = "processed"
            /\ RowOf(registry', FileId).status = "processed"]_vars

\* --------------------------------------------------------------------- C37
\* C37: the error message at completion.  When store-metadata succeeds, the
\* record's error_message is the extraction error if the final status is
\* `extraction_failed` and null otherwise: a message written earlier in the
\* run, for instance by a failed classification, does not survive.
C37_ErrorMessageAtCompletion ==
  [][Completes(METADATA)
       => LET row == RowOf(registry', FileId)
          IN IF row.status = "extraction_failed"
             THEN /\ row.error_message # NoError
                  /\ row.error_message = child[METADATA].payload.extractionError
             ELSE /\ row.status \in {"processed", "rejected"}
                  /\ row.error_message = NoError]_vars

\* The classification failed and left its message on record; store-metadata
\* has completed with `rejected` and the message is gone.
C37_Witness ==
  /\ child[METADATA].state = "ok"
  /\ child[CLASSIFY].state = "ok"
  /\ child[CLASSIFY].output.classification = fallbackResult
  /\ Row.possible_type = "unknown"
  /\ Row.status = "rejected"
  /\ Row.error_message = NoError

\* --------------------------------------------------------------------- C38
\* The timestamp-based poller.  Files appear in the watched Drive folder as
\* time passes; each poll lists the folder, keeps the files created after the
\* last-check time on file, triggers the workflow for each of them in turn
\* and then records the current time as the new last-check time.
MaxClock == 3

DriveFileIds == {"f1", "f2"}

pipelineVars ==
  <<input, now, registry, typeTables, objects, child, cacheOrder, run,
    duplicate, faults>>

RECURSIVE ByCreatedTimeDesc(_)
\* orderBy: 'createdTime desc'
ByCreatedTimeDesc(files) ==
  IF files = {} THEN <<>>
  ELSE LET first == CHOOSE f \in files :
                      \A g \in files : f.createdTime >= g.createdTime
       IN <<first>> \o ByCreatedTimeDesc(files \ {first})

\* Time passes.
Tick ==
  /\ poller.clock < MaxClock
  /\ poller' = [poller EXCEPT !.clock = @ + 1]
  /\ UNCHANGED pipelineVars

\* Somebody puts a file into the watched folder; Drive stamps it with the
\* current time.  A file may come without a name.
CreateFile ==
  /\ \E id \in DriveFileIds, named \in BOOLEAN :
       /\ id \notin {f.id : f \in poller.folder}
       /\ poller' = [poller EXCEPT
                       !.folder = @ \cup {[id |-> id,
                                           createdTime |-> poller.clock,
                                           named |-> named]}]
  /\ UNCHANGED pipelineVars

\* checkAndTrigger up to the filter: read the last-check time, list the
\* folder, keep the files created after the last-check time.
ListNewFiles ==
  /\ poller.pc = "idle"
  /\ poller' = [poller EXCEPT
                  !.pc = "triggering",
                  !.newFiles =
                    ByCreatedTimeDesc({f \in poller.folder :
                                         f.createdTime > poller.lastCheckedTime})]
  /\ UNCHANGED pipelineVars

\* One turn of the loop: a file without id or name is passed over; a trigger
\* request that fails throws, and the process exits with the last-check time
\* not written.
TriggerNextFile ==
  /\ poller.pc = "triggering"
  /\ poller.newFiles # <<>>
  /\ LET file == Head(poller.newFiles) IN
     IF ~file.named
     THEN poller' = [poller EXCEPT !.newFiles = Tail(@)]
     ELSE \E responseOk \in BOOLEAN :
            IF responseOk
            THEN poller' = [poller EXCEPT !.newFiles = Tail(@),
                                          !.triggered = @ \cup {file.id}]
            ELSE poller' = [poller EXCEPT !.pc = "idle", !.newFiles = <<>>]
  /\ UNCHANGED pipelineVars

\* After the loop: write the current time to last-check.txt and exit.
SaveLastCheck ==
  /\ poller.pc = "triggering"
  /\ poller.newFiles = <<>>
  /\ poller' = [poller EXCEPT !.pc = "idle",
                              !.lastCheckedTime = poller.clock]
  /\ UNCHANGED pipelineVars

NextCron ==
  \/ Tick
  \/ CreateFile
  \/ ListNewFiles
  \/ TriggerNextFile
  \/ SaveLastCheck

SpecCron == Init /\ [][NextCron]_vars

\* The file will be among the new files of the next poll.
PickedUpByNextPoll(f) == f.createdTime > poller.lastCheckedTime

\* C38: cron coverage.  Every file that is in the watched folder and has an
\* id and a name gets its workflow triggered by some poll: between polls,
\* every such file whose workflow has not been triggered yet is one the next
\* poll will pick up.  No file is skipped because it was created between the
\* listing and the recording of the new last-check time, and a failed
\* trigger request does not drop the remaining files.
C38_CronCoverage ==
  poller.pc = "idle"
    => \A f \in poller.folder :
         (f.named /\ f.id \notin poller.triggered) => PickedUpByNextPoll(f)

====
